---- MODULE Spec2Model ----
(***************************************************************************)
(* Request-scoped connection/transaction management of                     *)
(* auctions/web_app/main.py: ThreadlocalConnectionProvider and the two    *)
(* Flask hooks registered by setup_db (transaction_start,                  *)
(* transaction_commit).                                                    *)
(*                                                                         *)
(* A Python object with dynamic attributes (threading.local(), the Flask   *)
(* request) is a set of <<name, value>> pairs.  Connections are numbered   *)
(* 1..MaxConns in the order engine.connect() hands them out; 0 stands for  *)
(* Python's None.  A Session is represented by the connection it is bound  *)
(* to, a Transaction by the connection it was begun on.  The connection    *)
(* of a finished request is forgotten when its thread starts the next      *)
(* request: nothing refers to it any more.                                 *)
(*                                                                         *)
(* The collaborators outside the file behave as follows: engine.connect()  *)
(* returns a new Connection or raises; Connection.begin() and              *)
(* Transaction.commit() return or raise; Connection.close() and            *)
(* Session(bind=...) do not raise.  `assert` is enabled (no python -O).    *)
(***************************************************************************)
EXTENDS Integers, Sequences, FiniteSets, TLC

NumThreads == 2
MaxConns == 3

Threads == 1..NumThreads
ConnIds == 1..MaxConns
Statuses == {399, 400}

VARIABLES
    storage,    \* storage[t]: attributes of self._storage as seen by thread t
    request,    \* request[t]: attributes set on the request thread t handles
    connState,  \* connState[c]: "unopened", "open", "closed" or "collected"
    txState,    \* txState[c]: "none", "active", "committed" or "rolledback"
    calls,      \* calls[c]: begin/commit/close calls received by c, in order
    owner,      \* owner[c]: the thread whose engine.connect() returned c, or 0
    ret,        \* ret[t]: outcome of the last provider method thread t called
    hist,       \* hist[t]: history of open/close_if_present calls of thread t
    pc,         \* pc[t]: "idle", "dispatch" (between the hooks) or "done"
    unit        \* unit[t]: record of the unit of work thread t handles

vars == <<storage, request, connState, txState, calls, owner, ret, hist, pc, unit>>

\* The part of the state the provider and the connections live in.
World ==
    [storage |-> storage, connState |-> connState, txState |-> txState,
     calls |-> calls, owner |-> owner, ret |-> ret, hist |-> hist]

Apply(w) ==
    /\ storage' = w.storage
    /\ connState' = w.connState
    /\ txState' = w.txState
    /\ calls' = w.calls
    /\ owner' = w.owner
    /\ ret' = w.ret
    /\ hist' = w.hist

-----------------------------------------------------------------------------
\* Python attribute access on an object given as a set of <<name, value>>.

hasattr(obj, name) == \E p \in obj : p[1] = name

getattr(obj, name) == (CHOOSE p \in obj : p[1] = name)[2]

setattr(obj, name, value) == {p \in obj : p[1] # name} \cup {<<name, value>>}

delattr(obj, name) == {p \in obj : p[1] # name}

\* threading.local(): every thread reads and writes its own attribute set.
Local(st, t) == st[t]

SetLocalShared(st, t, obj) == [u \in DOMAIN st |-> obj]

SetLocal(st, t, obj) == [st EXCEPT ![t] = obj]

\* flask.request: every thread sees the request it is handling.
SetRequestShared(rq, t, obj) == [u \in DOMAIN rq |-> obj]

SetRequest(rq, t, obj) == [rq EXCEPT ![t] = obj]

\* A provider method returning value, or raising exc, in thread t.
Return(w, t, op, value) ==
    [w EXCEPT !.ret[t] = [op |-> op, exc |-> "", val |-> value]]

Raise(w, t, op, exc) ==
    [w EXCEPT !.ret[t] = [op |-> op, exc |-> exc, val |-> 0]]

\* History: the last of open/close_if_present thread t called, and whether
\* a successful open has not been followed by a close_if_present yet.
Record(w, t, last, held) ==
    [w EXCEPT !.hist[t] = [last |-> last, held |-> held]]

-----------------------------------------------------------------------------
\* The connection objects (sqlalchemy Engine, Connection, Transaction).

HasFresh(w) == \E c \in ConnIds : w.connState[c] = "unopened"

FreshConn(w) ==
    CHOOSE c \in ConnIds :
        /\ w.connState[c] = "unopened"
        /\ \A d \in ConnIds : d < c => w.connState[d] # "unopened"

\* self._engine.connect() succeeding in thread t with connection c
connect(w, t, c) ==
    [w EXCEPT !.connState[c] = "open", !.owner[c] = t]

\* connection.begin(): ok says whether it returns or raises
begin(w, c, ok) ==
    IF ok
    THEN [w EXCEPT !.calls[c] = Append(@, "begin"), !.txState[c] = "active"]
    ELSE [w EXCEPT !.calls[c] = @ \o <<"begin", "BeginFailed">>]

\* request.tx.commit(): ok says whether it returns or raises
commit(w, c, ok) ==
    IF ok
    THEN [w EXCEPT !.calls[c] = Append(@, "commit"),
                   !.txState[c] = IF @ = "active" THEN "committed" ELSE @]
    ELSE [w EXCEPT !.calls[c] = @ \o <<"commit", "CommitFailed">>]

\* connection.close(): uncommitted work is discarded with the connection
close(w, c) ==
    [w EXCEPT !.calls[c] = Append(@, "close"),
              !.connState[c] = "closed",
              !.txState[c] = IF @ = "active" THEN "rolledback" ELSE @]

\* The request of a finished unit of work goes away, and with it the closed
\* connection c its transaction referred to (c = 0: there was none).
collect(w, c) ==
    IF c # 0 /\ w.connState[c] = "closed"
    THEN [w EXCEPT !.connState[c] = "collected", !.txState[c] = "none",
                   !.calls[c] = <<>>, !.owner[c] = 0]
    ELSE w

-----------------------------------------------------------------------------
\* ThreadlocalConnectionProvider

\* open without its assert
open_noassert(w, t, connectOk) ==
    IF ~connectOk
    THEN Record(Raise(w, t, "open", "ConnectionUnavailable"), t, "open", w.hist[t].held)
    ELSE LET c == FreshConn(w)
             w1 == connect(w, t, c)
             s1 == setattr(Local(w1.storage, t), "connection", c)
             s2 == setattr(s1, "session", c)
             w2 == [w1 EXCEPT !.storage = SetLocal(@, t, s2)]
         IN  Record(Return(w2, t, "open", c), t, "open", TRUE)

\* open that binds the connection but no session
open_nosession(w, t, connectOk) ==
    IF hasattr(Local(w.storage, t), "connection")
    THEN Record(Raise(w, t, "open", "AssertionError"), t, "open", w.hist[t].held)
    ELSE IF ~connectOk
         THEN Record(Raise(w, t, "open", "ConnectionUnavailable"), t, "open", w.hist[t].held)
         ELSE LET c == FreshConn(w)
                  w1 == connect(w, t, c)
                  s1 == setattr(Local(w1.storage, t), "connection", c)
                  w2 == [w1 EXCEPT !.storage = SetLocal(@, t, s1)]
              IN  Record(Return(w2, t, "open", c), t, "open", TRUE)

\* open that leaves a connection checked out when engine.connect() raises
open_leakonfail(w, t, connectOk) ==
    IF hasattr(Local(w.storage, t), "connection")
    THEN Record(Raise(w, t, "open", "AssertionError"), t, "open", w.hist[t].held)
    ELSE IF ~connectOk
         THEN LET w1 == IF HasFresh(w) THEN connect(w, t, FreshConn(w)) ELSE w
              IN  Record(Raise(w1, t, "open", "ConnectionUnavailable"), t, "open",
                         w.hist[t].held)
         ELSE LET c == FreshConn(w)
                  w1 == connect(w, t, c)
                  s1 == setattr(Local(w1.storage, t), "connection", c)
                  s2 == setattr(s1, "session", c)
                  w2 == [w1 EXCEPT !.storage = SetLocal(@, t, s2)]
              IN  Record(Return(w2, t, "open", c), t, "open", TRUE)

\* open: connectOk says whether engine.connect() returns or raises
open(w, t, connectOk) ==
    IF hasattr(Local(w.storage, t), "connection")
    THEN Record(Raise(w, t, "open", "AssertionError"), t, "open", w.hist[t].held)
    ELSE IF ~connectOk
         THEN Record(Raise(w, t, "open", "ConnectionUnavailable"), t, "open", w.hist[t].held)
         ELSE LET c == FreshConn(w)
                  w1 == connect(w, t, c)
                  s1 == setattr(Local(w1.storage, t), "connection", c)
                  s2 == setattr(s1, "session", c)
                  w2 == [w1 EXCEPT !.storage = SetLocal(@, t, s2)]
              IN  Record(Return(w2, t, "open", c), t, "open", TRUE)

\* close_if_present that unbinds without closing the connection
close_if_present_noclose(w, t) ==
    LET s1 == delattr(Local(w.storage, t), "connection")
        s2 == delattr(s1, "session")
        w2 == [w EXCEPT !.storage = SetLocal(@, t, s2)]
    IN  Record(Return(w2, t, "close_if_present", 0), t, "close_if_present", FALSE)

\* close_if_present without the except AttributeError clause
close_if_present_strict(w, t) ==
    IF hasattr(Local(w.storage, t), "connection")
    THEN LET c == getattr(Local(w.storage, t), "connection")
             w1 == close(w, c)
             s1 == delattr(Local(w1.storage, t), "connection")
             s2 == delattr(s1, "session")
             w2 == [w1 EXCEPT !.storage = SetLocal(@, t, s2)]
         IN  Record(Return(w2, t, "close_if_present", 0), t, "close_if_present", FALSE)
    ELSE Record(Raise(w, t, "close_if_present", "AttributeError"), t, "close_if_present", FALSE)

\* close_if_present that closes the connection but keeps the attributes
close_if_present_nounbind(w, t) ==
    IF hasattr(Local(w.storage, t), "connection")
    THEN LET c == getattr(Local(w.storage, t), "connection")
             w1 == close(w, c)
         IN  Record(Return(w1, t, "close_if_present", 0), t, "close_if_present", FALSE)
    ELSE Record(Return(w, t, "close_if_present", 0), t, "close_if_present", FALSE)

close_if_present(w, t) ==
    IF hasattr(Local(w.storage, t), "connection")
    THEN LET c == getattr(Local(w.storage, t), "connection")
             w1 == close(w, c)
             s1 == delattr(Local(w1.storage, t), "connection")
             s2 == delattr(s1, "session")
             w2 == [w1 EXCEPT !.storage = SetLocal(@, t, s2)]
         IN  Record(Return(w2, t, "close_if_present", 0), t, "close_if_present", FALSE)
    ELSE Record(Return(w, t, "close_if_present", 0), t, "close_if_present", FALSE)

connected(w, t) == hasattr(Local(w.storage, t), "connection")

\* __call__ that opens a connection when none is bound
call_lazy(w, t) ==
    IF hasattr(Local(w.storage, t), "connection")
    THEN Return(w, t, "call", getattr(Local(w.storage, t), "connection"))
    ELSE IF HasFresh(w)
         THEN Return(open(w, t, TRUE), t, "call", FreshConn(w))
         ELSE Raise(w, t, "call", "NoConnection")

\* __call__
call(w, t) ==
    IF hasattr(Local(w.storage, t), "connection")
    THEN Return(w, t, "call", getattr(Local(w.storage, t), "connection"))
    ELSE Raise(w, t, "call", "NoConnection")

provide_session(w, t) ==
    IF ~connected(w, t)
    THEN Raise(w, t, "provide_session", "NoConnection")
    ELSE IF hasattr(Local(w.storage, t), "session")
         THEN Return(w, t, "provide_session", getattr(Local(w.storage, t), "session"))
         ELSE Raise(w, t, "provide_session", "AttributeError")

-----------------------------------------------------------------------------
\* The hooks of setup_db.  req is the attribute set of the Flask request.

\* transaction_start that catches the error of open
transaction_start_swallow(w, req, t, connectOk, beginOk) ==
    LET w1 == open(w, t, connectOk)
    IN  IF w1.ret[t].exc # ""
        THEN [w |-> w1, req |-> req, exc |-> ""]
        ELSE LET c == w1.ret[t].val
                 w2 == begin(w1, c, beginOk)
             IN  IF beginOk
                 THEN [w |-> w2, req |-> setattr(req, "tx", c), exc |-> ""]
                 ELSE [w |-> w2, req |-> req, exc |-> "BeginFailed"]

transaction_start(w, req, t, connectOk, beginOk) ==
    LET w1 == open(w, t, connectOk)
    IN  IF w1.ret[t].exc # ""
        THEN [w |-> w1, req |-> req, exc |-> w1.ret[t].exc]
        ELSE LET c == w1.ret[t].val
                 w2 == begin(w1, c, beginOk)
             IN  IF beginOk
                 THEN [w |-> w2, req |-> setattr(req, "tx", c), exc |-> ""]
                 ELSE [w |-> w2, req |-> req, exc |-> "BeginFailed"]

\* transaction_commit without try/finally
transaction_commit_nofinally(w, req, t, status, commitOk) ==
    LET attempt == hasattr(req, "tx") /\ status < 400
        w1 == IF attempt THEN commit(w, getattr(req, "tx"), commitOk) ELSE w
        w2 == IF attempt /\ ~commitOk THEN w1 ELSE close_if_present(w1, t)
    IN  [w |-> w2, exc |-> IF attempt /\ ~commitOk THEN "CommitFailed" ELSE ""]

\* transaction_commit releasing before it commits
transaction_commit_closefirst(w, req, t, status, commitOk) ==
    LET attempt == hasattr(req, "tx") /\ status < 400
        w1 == close_if_present(w, t)
        w2 == IF attempt THEN commit(w1, getattr(req, "tx"), commitOk) ELSE w1
    IN  [w |-> w2, exc |-> IF attempt /\ ~commitOk THEN "CommitFailed" ELSE ""]

\* transaction_commit that does not look at the status
transaction_commit_anystatus(w, req, t, status, commitOk) ==
    LET attempt == hasattr(req, "tx")
        w1 == IF attempt THEN commit(w, getattr(req, "tx"), commitOk) ELSE w
        w2 == close_if_present(w1, t)
    IN  [w |-> w2, exc |-> IF attempt /\ ~commitOk THEN "CommitFailed" ELSE ""]

\* transaction_commit that swallows the error of commit
transaction_commit_swallow(w, req, t, status, commitOk) ==
    LET attempt == hasattr(req, "tx") /\ status < 400
        w1 == IF attempt THEN commit(w, getattr(req, "tx"), commitOk) ELSE w
        w2 == close_if_present(w1, t)
    IN  [w |-> w2, exc |-> ""]

\* transaction_commit that releases only after a success status
transaction_commit_releaseonsuccess(w, req, t, status, commitOk) ==
    LET attempt == hasattr(req, "tx") /\ status < 400
        w1 == IF attempt THEN commit(w, getattr(req, "tx"), commitOk) ELSE w
        w2 == IF status < 400 THEN close_if_present(w1, t) ELSE w1
    IN  [w |-> w2, exc |-> IF attempt /\ ~commitOk THEN "CommitFailed" ELSE ""]

\* transaction_commit with <= in place of <
transaction_commit_le400(w, req, t, status, commitOk) ==
    LET attempt == hasattr(req, "tx") /\ status <= 400
        w1 == IF attempt THEN commit(w, getattr(req, "tx"), commitOk) ELSE w
        w2 == close_if_present(w1, t)
    IN  [w |-> w2, exc |-> IF attempt /\ ~commitOk THEN "CommitFailed" ELSE ""]

transaction_commit(w, req, t, status, commitOk) ==
    LET attempt == hasattr(req, "tx") /\ status < 400
        w1 == IF attempt THEN commit(w, getattr(req, "tx"), commitOk) ELSE w
        w2 == close_if_present(w1, t)
    IN  [w |-> w2, exc |-> IF attempt /\ ~commitOk THEN "CommitFailed" ELSE ""]

-----------------------------------------------------------------------------
\* The bindings di_config makes.  bind_to_provider registers a callable that
\* is called at every resolution, bind registers the instance itself.

\* di_config with Connection and Session bound by bind instead
Registry_captured ==
    [Connection |-> [kind |-> "instance", value |-> "connection_provider"],
     Session |-> [kind |-> "instance", value |-> "provide_session"],
     AuctionsRepository |-> [kind |-> "provider", value |-> "SqlAlchemyAuctionsRepo"],
     GetActiveAuctions |-> [kind |-> "provider", value |-> "SqlGetActiveAuctions"],
     GetSingleAuction |-> [kind |-> "provider", value |-> "SqlGetSingleAuction"],
     EventBus |-> [kind |-> "instance", value |-> "event_bus"],
     PaymentProvider |-> [kind |-> "instance", value |-> "CaPaymentsPaymentProvider"]]

Registry ==
    [Connection |-> [kind |-> "provider", value |-> "connection_provider"],
     Session |-> [kind |-> "provider", value |-> "provide_session"],
     AuctionsRepository |-> [kind |-> "provider", value |-> "SqlAlchemyAuctionsRepo"],
     GetActiveAuctions |-> [kind |-> "provider", value |-> "SqlGetActiveAuctions"],
     GetSingleAuction |-> [kind |-> "provider", value |-> "SqlGetSingleAuction"],
     EventBus |-> [kind |-> "instance", value |-> "event_bus"],
     PaymentProvider |-> [kind |-> "instance", value |-> "CaPaymentsPaymentProvider"]]

\* Resolution of a registered capability in thread t: a provider entry is
\* called now, an instance entry is handed out as registered (an object that
\* is no connection: 0).
resolve(w, t, cap) ==
    LET e == Registry[cap]
    IN  IF e.kind = "provider" /\ e.value = "connection_provider"
        THEN call(w, t)
        ELSE IF e.kind = "provider" /\ e.value = "provide_session"
             THEN provide_session(w, t)
             ELSE Return(w, t, "resolve", 0)

-----------------------------------------------------------------------------
Init ==
    /\ storage = [t \in Threads |-> {}]
    /\ request = [t \in Threads |-> {}]
    /\ connState = [c \in ConnIds |-> "unopened"]
    /\ txState = [c \in ConnIds |-> "none"]
    /\ calls = [c \in ConnIds |-> <<>>]
    /\ owner = [c \in ConnIds |-> 0]
    /\ ret = [t \in Threads |-> [op |-> "none", exc |-> "", val |-> 0]]
    /\ hist = [t \in Threads |-> [last |-> "none", held |-> FALSE]]
    /\ pc = [t \in Threads |-> "idle"]
    /\ unit = [t \in Threads |-> [pre |-> "none", conn |-> 0, status |-> 0, post |-> "none"]]

\* The pipeline starts a unit of work on thread t: before_request.
TransactionStart(t) ==
    /\ pc[t] \in {"idle", "done"}
    /\ \E connectOk, beginOk \in BOOLEAN :
        /\ connectOk => HasFresh(World)
        /\ LET r == transaction_start(collect(World, unit[t].conn), {}, t,
                                      connectOk, beginOk)
           IN  /\ Apply(r.w)
               /\ request' = SetRequest(request, t, r.req)
               /\ unit' = [unit EXCEPT ![t] =
                             [pre |-> IF r.exc = "" THEN "ok" ELSE r.exc,
                              conn |-> IF r.w.ret[t].exc = "" THEN r.w.ret[t].val ELSE 0,
                              status |-> 0, post |-> "none"]]
    /\ pc' = [pc EXCEPT ![t] = "dispatch"]

\* Domain code resolves the current connection.
DomainCurrent(t) ==
    /\ pc[t] = "dispatch"
    /\ Apply(resolve(World, t, "Connection"))
    /\ UNCHANGED <<request, pc, unit>>

\* Domain code resolves the current session.
DomainSession(t) ==
    /\ pc[t] = "dispatch"
    /\ Apply(resolve(World, t, "Session"))
    /\ UNCHANGED <<request, pc, unit>>

\* The pipeline finishes the unit of work with a response: after_request.
TransactionCommit(t) ==
    /\ pc[t] = "dispatch"
    /\ pc' = [pc EXCEPT ![t] = "done"]
    /\ UNCHANGED request
    /\ \E status \in Statuses, commitOk \in BOOLEAN :
        LET r == transaction_commit(World, request[t], t, status, commitOk)
        IN  /\ Apply(r.w)
            /\ unit' = [unit EXCEPT ![t].status = status,
                                    ![t].post = IF r.exc = "" THEN "ok" ELSE r.exc]

Next ==
    \E t \in Threads :
        \/ TransactionStart(t)
        \/ DomainCurrent(t)
        \/ DomainSession(t)
        \/ TransactionCommit(t)

Spec == Init /\ [][Next]_vars

\* The provider's methods called in any order by any thread.
Open(t) ==
    /\ \E connectOk \in BOOLEAN :
        /\ connectOk => HasFresh(World)
        /\ Apply(open(World, t, connectOk))
    /\ UNCHANGED <<request, pc, unit>>

CloseIfPresent(t) ==
    /\ Apply(close_if_present(World, t))
    /\ UNCHANGED <<request, pc, unit>>

Call(t) ==
    /\ Apply(call(World, t))
    /\ UNCHANGED <<request, pc, unit>>

ProvideSession(t) ==
    /\ Apply(provide_session(World, t))
    /\ UNCHANGED <<request, pc, unit>>

NextProvider ==
    \E t \in Threads :
        \/ Open(t)
        \/ CloseIfPresent(t)
        \/ Call(t)
        \/ ProvideSession(t)

SpecProvider == Init /\ [][NextProvider]_vars

TypeOK ==
    /\ \A t \in Threads : storage[t] \subseteq ({"connection", "session"} \X ConnIds)
    /\ \A t \in Threads : request[t] \subseteq ({"tx"} \X ConnIds)
    /\ connState \in [ConnIds -> {"unopened", "open", "closed", "collected"}]
    /\ txState \in [ConnIds -> {"none", "active", "committed", "rolledback"}]
    /\ owner \in [ConnIds -> 0..NumThreads]
    /\ pc \in [Threads -> {"idle", "dispatch", "done"}]
-----------------------------------------------------------------------------
\* Helpers of the properties.

Count(seq, e) == Cardinality({i \in DOMAIN seq : seq[i] = e})

Pos(seq, e) == CHOOSE i \in DOMAIN seq : seq[i] = e

Bound(t) == {p[2] : p \in {q \in storage[t] : q[1] = "connection"}}

Unbound(t) == storage[t] = {}

\* C1: once transaction_commit has run in a thread, close_if_present was its
\* last provider call and returned, the thread has no binding left and the
\* connection its unit of work acquired (if any) is closed; this holds when
\* the commit succeeded, when it was skipped and when it raised.
C1_ReleaseOnEveryPath ==
    \A t \in Threads :
        pc[t] = "done" =>
            /\ ret[t].op = "close_if_present"
            /\ ret[t].exc = ""
            /\ Unbound(t)
            /\ unit[t].conn # 0 =>
                /\ connState[unit[t].conn] = "closed"
                /\ Count(calls[unit[t].conn], "close") = 1

C1_Witness ==
    \E t, u \in Threads :
        /\ pc[t] = "done" /\ unit[t].post = "CommitFailed"
        /\ connState[unit[t].conn] = "closed"
        /\ pc[u] = "done" /\ unit[u].pre = "ok" /\ unit[u].status >= 400
        /\ connState[unit[u].conn] = "closed"

\* C2: after a unit of work whose pre-dispatch succeeded and whose status is
\* below 400, commit was called exactly once on the transaction begun at
\* pre-dispatch (and took effect unless it raised), the connection was
\* closed exactly once and unbound, and the commit came before the close.
C2_CommitOnceThenReleaseOnce ==
    \A t \in Threads :
        (pc[t] = "done" /\ unit[t].pre = "ok" /\ unit[t].status < 400) =>
            LET c == unit[t].conn
            IN  /\ c # 0
                /\ Count(calls[c], "begin") = 1
                /\ Count(calls[c], "commit") = 1
                /\ Count(calls[c], "close") = 1
                /\ Pos(calls[c], "begin") < Pos(calls[c], "commit")
                /\ Pos(calls[c], "commit") < Pos(calls[c], "close")
                /\ connState[c] = "closed"
                /\ Unbound(t)
                /\ unit[t].post = "ok" => txState[c] = "committed"

C2_Witness ==
    \E t \in Threads :
        /\ pc[t] = "done" /\ unit[t].pre = "ok" /\ unit[t].status < 400
        /\ unit[t].post = "ok"
        /\ calls[unit[t].conn] = <<"begin", "commit", "close">>

\* C3: after a unit of work whose status is 400 or more, no commit and no
\* rollback was called on its transaction, the hook raised nothing, and the
\* connection is closed and unbound.
C3_FailureNoCommitButRelease ==
    \A t \in Threads :
        (pc[t] = "done" /\ unit[t].status >= 400) =>
            /\ unit[t].post = "ok"
            /\ Unbound(t)
            /\ unit[t].conn # 0 =>
                /\ Count(calls[unit[t].conn], "commit") = 0
                /\ Count(calls[unit[t].conn], "rollback") = 0
                /\ Count(calls[unit[t].conn], "close") = 1
                /\ connState[unit[t].conn] = "closed"
                /\ txState[unit[t].conn] # "committed"

C3_Witness ==
    \E t \in Threads :
        /\ pc[t] = "done" /\ unit[t].pre = "ok" /\ unit[t].status = 400
        /\ calls[unit[t].conn] = <<"begin", "close">>

\* C4: when the commit of post-dispatch raised, the hook raised CommitFailed,
\* and by then the connection was closed (after the failed commit) and the
\* thread has no binding.
C4_CommitErrorAfterRelease ==
    \A t \in Threads :
        (pc[t] = "done" /\ unit[t].conn # 0
                        /\ Count(calls[unit[t].conn], "CommitFailed") > 0) =>
            LET c == unit[t].conn
            IN  /\ unit[t].post = "CommitFailed"
                /\ Count(calls[c], "close") = 1
                /\ Pos(calls[c], "CommitFailed") < Pos(calls[c], "close")
                /\ connState[c] = "closed"
                /\ Unbound(t)
                /\ ~connected(World, t)

C4_Witness ==
    \E t \in Threads :
        /\ pc[t] = "done" /\ unit[t].post = "CommitFailed"
        /\ calls[unit[t].conn] = <<"begin", "commit", "CommitFailed", "close">>
        /\ Unbound(t)
\* What a failed or read-only provider call must leave alone.
SameResources ==
    /\ storage' = storage
    /\ connState' = connState
    /\ txState' = txState
    /\ calls' = calls
    /\ owner' = owner

\* C5 (as stated): an open whose previous open/close_if_present on the same
\* thread was a close_if_present, or that is the thread's first, succeeds;
\* an open that follows an open with no close_if_present between them raises
\* AssertionError and leaves connections and bindings as they were.
C5_Original ==
    [][\A t \in Threads :
        Open(t) =>
            /\ hist[t].last \in {"none", "close_if_present"} => ret'[t].exc = ""
            /\ hist[t].last = "open" =>
                (ret'[t].exc = "AssertionError" /\ SameResources)]_vars

\* C5 (amended): an open issued while no successful open is outstanding
\* (none yet, or close_if_present was called since the last one) never raises
\* AssertionError: it binds a new open connection, unless engine.connect()
\* raises, which leaves the thread unbound; an open issued after a successful
\* open with no close_if_present since raises AssertionError and leaves
\* connections and bindings as they were.
C5_AcquireReleaseDiscipline ==
    [][\A t \in Threads :
        Open(t) =>
            IF hist[t].held
            THEN ret'[t].exc = "AssertionError" /\ SameResources
            ELSE /\ ret'[t].exc \in {"", "ConnectionUnavailable"}
                 /\ ret'[t].exc = "ConnectionUnavailable" =>
                        (SameResources /\ storage[t] = {})
                 /\ ret'[t].exc = "" =>
                        /\ connState[ret'[t].val] = "unopened"
                        /\ connState'[ret'[t].val] = "open"
                        /\ storage'[t] = {<<"connection", ret'[t].val>>,
                                          <<"session", ret'[t].val>>}]_vars

C5_Witness ==
    \E t, u \in Threads :
        /\ ret[t].op = "open" /\ ret[t].exc = "AssertionError"
        /\ hist[t].held /\ Bound(t) # {}
        /\ ret[u].op = "open" /\ ret[u].exc = ""
        /\ \E c \in ConnIds : owner[c] = u /\ connState[c] = "closed"
        /\ connState[ret[u].val] = "open"

\* Thread t took part in the step: it went through a hook or called a
\* provider method.
Acted(t) == pc'[t] # pc[t] \/ ret'[t] # ret[t] \/ unit'[t] # unit[t]

\* C6: what __call__ and provide_session return in a thread is the
\* connection that thread's own open obtained for its current unit of work,
\* no other thread is bound to it, and a step changes no binding but that of
\* the thread taking it.
C6_ContextIsolation ==
    /\ [](\A t \in Threads :
            (ret[t].op \in {"call", "provide_session"} /\ ret[t].exc = "") =>
                /\ owner[ret[t].val] = t
                /\ ret[t].val = unit[t].conn
                /\ \A u \in Threads \ {t} : ret[t].val \notin Bound(u))
    /\ [][\A a \in Threads :
            /\ ~Acted(a) => storage'[a] = storage[a]
            /\ Acted(a) => \A b \in Threads \ {a} : ~Acted(b)]_vars

C6_Witness ==
    \E t, u \in Threads :
        /\ t # u
        /\ pc[t] = "dispatch" /\ pc[u] = "dispatch"
        /\ ret[t].op = "call" /\ ret[t].exc = ""
        /\ ret[u].op = "provide_session" /\ ret[u].exc = ""
        /\ ret[t].val # ret[u].val
        /\ Bound(t) = {ret[t].val} /\ Bound(u) = {ret[u].val}

\* C7: a thread holds at most one connection and at most one session, every
\* open connection is bound to exactly one thread (the one that opened it),
\* and when no unit of work is between its hooks no connection is open.
C7_OneBindingNoLeak ==
    /\ \A t \in Threads :
        /\ Cardinality({p \in storage[t] : p[1] = "connection"}) <= 1
        /\ Cardinality({p \in storage[t] : p[1] = "session"}) <= 1
        /\ Cardinality({c \in ConnIds : connState[c] = "open" /\ owner[c] = t}) <= 1
    /\ \A c \in ConnIds :
        connState[c] = "open" =>
            /\ Cardinality({t \in Threads : c \in Bound(t)}) = 1
            /\ c \in Bound(owner[c])
    /\ (\A t \in Threads : pc[t] # "dispatch") =>
            Cardinality({c \in ConnIds : connState[c] = "open"}) = 0

C7_Witness ==
    /\ \A t \in Threads : pc[t] = "done" /\ unit[t].conn # 0
    /\ \E t \in Threads : unit[t].post = "CommitFailed"
    /\ \E t \in Threads : unit[t].status >= 400
    /\ \A c \in ConnIds : connState[c] # "open"

\* C8: __call__ raises "No connection available" when the thread has no
\* connection attribute and returns the bound connection otherwise; either
\* way bindings, connections and transactions stay as they were.
C8_CurrentNeverCreates ==
    [][\A t \in Threads :
        Call(t) =>
            /\ SameResources
            /\ IF Bound(t) = {}
               THEN ret'[t].exc = "NoConnection"
               ELSE ret'[t].exc = "" /\ Bound(t) = {ret'[t].val}]_vars

C8_Witness ==
    \E t, u \in Threads :
        /\ ret[t].op = "call" /\ ret[t].exc = "NoConnection" /\ Bound(t) = {}
        /\ ret[u].op = "call" /\ ret[u].exc = "" /\ Bound(u) = {ret[u].val}

\* C9: in every state reachable by calls of the provider's methods, a thread
\* has a connection attribute exactly when it has a session attribute, the
\* session is bound to that connection, and provide_session returns or
\* raises "No connection available" exactly when __call__ does.
C9_SessionIffConnection ==
    \A t \in Threads :
        LET a == call(World, t).ret[t]
            b == provide_session(World, t).ret[t]
        IN  /\ hasattr(storage[t], "connection") <=> hasattr(storage[t], "session")
            /\ a.exc = "" <=> b.exc = ""
            /\ a.exc = "NoConnection" <=> b.exc = "NoConnection"
            /\ a.exc = "" => a.val = b.val
            /\ a.exc = "" => connState[a.val] = "open"

C9_Witness ==
    \E t, u \in Threads :
        /\ ret[t].op = "open" /\ ret[t].exc = "ConnectionUnavailable" /\ Unbound(t)
        /\ provide_session(World, t).ret[t].exc = "NoConnection"
        /\ \E c \in ConnIds : owner[c] = u /\ connState[c] = "closed"
        /\ provide_session(World, u).ret[u].exc = ""

\* C10: close_if_present called in a thread with no connection attribute
\* returns without raising and changes no binding, connection or
\* transaction; in every state a second close_if_present right after a first
\* changes nothing.
C10_ReleaseIdempotent ==
    /\ [](\A t \in Threads :
            LET once == close_if_present(World, t)
            IN  /\ once.ret[t].exc = ""
                /\ close_if_present(once, t) = once)
    /\ [][\A t \in Threads :
            (CloseIfPresent(t) /\ Bound(t) = {}) =>
                (ret'[t].exc = "" /\ SameResources)]_vars

C10_Witness ==
    \E t \in Threads :
        /\ ret[t].op = "close_if_present" /\ ret[t].exc = ""
        /\ \A c \in ConnIds : owner[c] # t
        /\ \E c \in ConnIds : connState[c] = "open"
\* The calls a connection can have received at any moment of its life:
\* begin, then at most one commit, then at most one close.
Lifecycles ==
    {<<>>,
     <<"begin">>, <<"begin", "BeginFailed">>,
     <<"begin", "close">>, <<"begin", "BeginFailed", "close">>,
     <<"begin", "commit", "close">>,
     <<"begin", "commit", "CommitFailed", "close">>}

\* The commit of the transaction of connection c returned.
Committed(c) ==
    Count(calls[c], "commit") > 0 /\ Count(calls[c], "CommitFailed") = 0

\* Connection c was closed with nothing committed: what its transaction did,
\* if it had one, went away with it.
Discarded(c) == connState[c] = "closed" /\ txState[c] \in {"none", "rolledback"}

\* C11: the calls on a connection follow begin, commit or nothing, close; no
\* connection is both committed and discarded; a closed connection is
\* committed or discarded, and the commit came before the close.
C11_Lifecycle ==
    \A c \in ConnIds :
        /\ calls[c] \in Lifecycles
        /\ ~(Committed(c) /\ Discarded(c))
        /\ Committed(c) <=> txState[c] = "committed"
        /\ connState[c] = "closed" =>
            /\ Committed(c) \/ Discarded(c)
            /\ Count(calls[c], "close") = 1
            /\ Committed(c) => Pos(calls[c], "commit") < Pos(calls[c], "close")
        /\ connState[c] = "open" => (~Committed(c) /\ Count(calls[c], "close") = 0)

C11_Witness ==
    \E c, d \in ConnIds :
        /\ connState[c] = "closed" /\ Committed(c) /\ ~Discarded(c)
        /\ connState[d] = "closed" /\ Discarded(d) /\ ~Committed(d)
        /\ txState[d] = "rolledback"

\* C12: after post-dispatch the thread has no binding whatever the outcome
\* was, an open called there does not raise AssertionError, and no
\* pre-dispatch ever failed with AssertionError.
C12_NextUnitUnaffected ==
    \A t \in Threads :
        /\ unit[t].pre # "AssertionError"
        /\ pc[t] = "done" =>
            /\ Unbound(t)
            /\ ~connected(World, t)
            /\ open(World, t, FALSE).ret[t].exc = "ConnectionUnavailable"
            /\ HasFresh(World) => open(World, t, TRUE).ret[t].exc = ""

C12_Witness ==
    \E t \in Threads :
        /\ pc[t] = "dispatch" /\ unit[t].pre = "ok" /\ unit[t].conn > 1
        /\ \A u \in Threads \ {t} : pc[u] = "idle"
        /\ \E c \in ConnIds : connState[c] = "collected"

\* The pipeline calls post-dispatch for every unit of work it started.
SpecFair == Spec /\ \A t \in Threads : WF_vars(TransactionCommit(t))

\* Thread t has no binding and no open connection of its own.
Released(t) ==
    /\ Unbound(t)
    /\ \A c \in ConnIds : ~(connState[c] = "open" /\ owner[c] = t)

\* C13: whatever a thread holds, a state follows in which it has no binding
\* and no open connection of its own: a unit of work that acquired a
\* connection gets it closed and unbound, whatever its outcome.
C13_EventuallyReleased == \A t \in Threads : []<>Released(t)

C13_Witness ==
    \E t \in Threads :
        /\ pc[t] = "done" /\ unit[t].pre = "ok" /\ unit[t].post = "CommitFailed"
        /\ Unbound(t) /\ connState[unit[t].conn] = "closed"
        /\ \E u \in Threads : pc[u] = "dispatch" /\ Bound(u) # {}
\* Thread t resolved a capability in this step of its unit of work.
Resolved(t) == pc[t] = "dispatch" /\ pc'[t] = "dispatch" /\ ret'[t] # ret[t]

\* C14: resolving Connection or Session in a unit of work gives the
\* connection bound to the resolving thread at that moment, which is open and
\* is the one this unit of work acquired, and raises "No connection
\* available" when the thread has no binding; the connection of the thread's
\* previous unit of work is gone by then and differs from the new one.
C14_ResolveCurrentBinding ==
    [][\A t \in Threads :
        /\ Resolved(t) =>
            /\ ret'[t].op \in {"call", "provide_session"}
            /\ IF Bound(t) = {}
               THEN ret'[t].exc = "NoConnection"
               ELSE /\ ret'[t].exc = ""
                    /\ Bound(t) = {ret'[t].val}
                    /\ ret'[t].val = unit[t].conn
                    /\ connState[ret'[t].val] = "open"
        /\ (pc[t] = "done" /\ pc'[t] = "dispatch"
                /\ unit[t].conn # 0 /\ unit'[t].conn # 0) =>
            /\ unit'[t].conn # unit[t].conn
            /\ connState'[unit[t].conn] = "collected"
            /\ Bound(t)' = {unit'[t].conn}]_vars

C14_Witness ==
    \E t \in Threads :
        /\ pc[t] = "dispatch" /\ unit[t].conn > 1
        /\ ret[t].op = "call" /\ ret[t].exc = "" /\ ret[t].val = unit[t].conn
        /\ \A u \in Threads \ {t} : pc[u] = "idle"
        /\ \E c \in ConnIds : connState[c] = "collected"
\* Thread t went through pre-dispatch in this step.
Started(t) == pc[t] \in {"idle", "done"} /\ pc'[t] = "dispatch"

\* C17: when open raises in transaction_start, the hook raises the same
\* error, the thread stays unbound, no attribute is set on the request, and
\* no connection is opened and no transaction begun in that step.
C17_AcquireFailurePropagates ==
    [][\A t \in Threads :
        (Started(t) /\ ret'[t].exc # "") =>
            /\ ret'[t].op = "open"
            /\ unit'[t].pre = ret'[t].exc
            /\ unit'[t].conn = 0
            /\ request'[t] = {}
            /\ storage'[t] = {}
            /\ \A c \in ConnIds :
                /\ connState'[c] = "open" => connState[c] = "open"
                /\ txState'[c] = "active" => txState[c] = "active"
                /\ Count(calls'[c], "begin") <= Count(calls[c], "begin")]_vars

C17_Witness ==
    \E t \in Threads :
        /\ pc[t] = "dispatch" /\ unit[t].pre = "ConnectionUnavailable"
        /\ ret[t].op = "open" /\ ret[t].exc = "ConnectionUnavailable"
        /\ request[t] = {} /\ Unbound(t)
        /\ \E c \in ConnIds : connState[c] = "collected"

\* C18: after post-dispatch, commit was called on the unit's transaction
\* exactly when the request has a tx attribute and the status is below 400
\* (399 commits, 400 does not); the tx attribute is there exactly when
\* pre-dispatch succeeded; and in every case the thread is unbound and the
\* unit's connection, if any, is closed.
C18_CommitIffHandleAndSuccess ==
    \A t \in Threads :
        /\ (pc[t] # "idle") => (hasattr(request[t], "tx") <=> unit[t].pre = "ok")
        /\ pc[t] = "done" =>
            LET c == unit[t].conn
                attempted == c # 0 /\ Count(calls[c], "commit") > 0
            IN  /\ attempted <=> (hasattr(request[t], "tx") /\ unit[t].status < 400)
                /\ unit[t].post = "CommitFailed" => attempted
                /\ ret[t].op = "close_if_present"
                /\ Unbound(t)
                /\ c # 0 => connState[c] = "closed"

C18_Witness ==
    \E t, u \in Threads :
        /\ pc[t] = "done" /\ unit[t].status = 399 /\ unit[t].pre = "ok"
        /\ Count(calls[unit[t].conn], "commit") = 1
        /\ pc[u] = "done" /\ unit[u].status = 400 /\ unit[u].pre = "ok"
        /\ calls[unit[u].conn] = <<"begin", "close">>

\* C19: after an open in which engine.connect() raised, the thread has no
\* binding, connected is false, no connection of its own is open, nothing
\* changed in that step, and an open called next succeeds if engine.connect()
\* does.
C19_ConnectFailureLeavesUnbound ==
    /\ [](\A t \in Threads :
            (ret[t].op = "open" /\ ret[t].exc = "ConnectionUnavailable") =>
                /\ Unbound(t)
                /\ ~connected(World, t)
                /\ Released(t)
                /\ HasFresh(World) =>
                    LET w == open(World, t, TRUE)
                    IN  /\ w.ret[t].exc = ""
                        /\ connected(w, t)
                        /\ w.connState[w.ret[t].val] = "open")
    /\ [][\A t \in Threads :
            (ret'[t] # ret[t] /\ ret'[t].op = "open"
                              /\ ret'[t].exc = "ConnectionUnavailable") =>
                SameResources]_vars

C19_Witness ==
    \E t \in Threads :
        /\ ret[t].op = "open" /\ ret[t].exc = "ConnectionUnavailable"
        /\ Unbound(t) /\ HasFresh(World)
        /\ \E c \in ConnIds : owner[c] = t /\ connState[c] = "closed"
        /\ \E u \in Threads \ {t} : Bound(u) # {}

\* C20: the tx attribute of a request is the transaction of the connection
\* its own thread acquired for this unit of work; until post-dispatch that
\* connection is open, bound to that thread and its transaction active; and a
\* connection on which commit was called received it once, before its close,
\* from the unit of work of the thread that opened it.
C20_CommitsOwnTransaction ==
    /\ \A t \in Threads :
        hasattr(request[t], "tx") =>
            LET c == getattr(request[t], "tx")
            IN  /\ c = unit[t].conn
                /\ owner[c] = t
                /\ pc[t] = "dispatch" =>
                    /\ Bound(t) = {c}
                    /\ connState[c] = "open"
                    /\ txState[c] = "active"
    /\ \A c \in ConnIds :
        Count(calls[c], "commit") > 0 =>
            /\ Count(calls[c], "commit") = 1
            /\ Count(calls[c], "close") = 1
            /\ Pos(calls[c], "begin") < Pos(calls[c], "commit")
            /\ Pos(calls[c], "commit") < Pos(calls[c], "close")
            /\ \E t \in Threads :
                /\ owner[c] = t /\ unit[t].conn = c /\ pc[t] = "done"
                /\ request[t] = {<<"tx", c>>}
                /\ unit[t].status < 400

C20_Witness ==
    \E t, u \in Threads :
        /\ t # u
        /\ pc[t] = "done" /\ unit[t].conn # 0
        /\ txState[unit[t].conn] = "committed"
        /\ pc[u] = "dispatch" /\ unit[u].pre = "ok"
        /\ unit[u].conn < unit[t].conn
        /\ Bound(u) = {unit[u].conn}
====
